---- MODULE Spec2Model ----
(***************************************************************************)
(* The Generate-Validate-Revise-Publish pipeline of src/graph5.py: the     *)
(* LangGraph state machine built by build_modular_graph, its node          *)
(* functions, the two-phase validator run_code and the router              *)
(* check_execution_result.                                                 *)
(*                                                                         *)
(* The workflow state (OverallState, a dict threaded through the nodes) is *)
(* the record `state`; a node returning {**state, "k": v} is               *)
(* Merge(state, [k |-> v]).  Everything the program obtains from its       *)
(* collaborators (sandbox, generation service, git) is an input chosen     *)
(* with \E inside the action of the node that asks for it.  The variables  *)
(* calls, attempt and route are observers: they count the calls the run    *)
(* makes and record which phases the latest validation attempt executed.   *)
(*                                                                         *)
(* repo records what the publisher committed; worktree is the content of  *)
(* src/agent/graph.py in the sandbox's working copy, written by            *)
(* test_langgraph_dev and write_code_to_file and read by the publisher;    *)
(* git_trace records the commands one publisher run issued.                *)
(*                                                                         *)
(* Spec is one run of the graph.  DevSpec applies test_langgraph_dev alone *)
(* to every bounded dev-server output (held in dev_input); GitSpec applies *)
(* git_operations alone to every bounded outcome of the sync and the push  *)
(* (held in git_input).                                                    *)
(***************************************************************************)
EXTENDS Integers, Sequences, FiniteSets, TLC

VARIABLES pc, state, calls, attempt, route, dev_input, git_input, repo, pkg,
          claude, par, git_trace, worktree

vars == <<pc, state, calls, attempt, route, dev_input, git_input, repo, pkg,
         claude, par, git_trace, worktree>>

----------------------------------------------------------------------------
(* Bounds *)

\* largest max_revision_attempts an input may ask for (the default, 3, included)
MaxRevisionBound == 3

\* number of distinct non-empty artifacts the generation service may return
NumArtifacts == 2

\* number of workflow instances run in parallel
NumInstances == 2

\* clock ticks in one second, and the last tick of the clock
TicksPerSecond == 2

MaxClock == 3

\* largest number of lines in a scanned source text
MaxLines == 3

\* largest number of marker phrases in one dev-server output
MaxMarkers == 2

\* largest number of owned files a pull leaves with conflict markers
MaxConflicted == 1

----------------------------------------------------------------------------
(* Values *)

\* state.get("max_revision_attempts", 3)
DefaultMaxRevisionAttempts == 3

ArtifactNames == <<"code1", "code2", "code3", "code4">>

Artifacts == {ArtifactNames[i] : i \in 1..NumArtifacts}

\* Python None, for the Optional[str] fields
None == "None"

\* `not generated_code`: None and the empty string are falsy
Falsy(code) == code \in {None, ""}

\* generated_code.strip(): the whitespace-only text strips to ""
Strip(text) == IF text = " " THEN "" ELSE text

\* {**state, **upd}
Merge(s, upd) ==
    upd @@ s

\* The state a run starts from: the InputState keys, every other key absent
\* (read by the nodes through state.get(key, default), whose defaults these are).
\* maxAttempts is the input's max_revision_attempts, DefaultMaxRevisionAttempts
\* when the input gives none.
InitialState(maxAttempts) ==
    [ max_revision_attempts |-> maxAttempts,
      sandbox |-> FALSE,
      repo_path |-> FALSE,
      repo_cloned |-> FALSE,
      generated_code |-> None,
      code_generated |-> FALSE,
      code_written |-> FALSE,
      local_file_path |-> FALSE,
      execution_successful |-> FALSE,
      revision_attempts |-> 0,
      last_error_type |-> None,
      last_error_name |-> None,
      langgraph_config_setup |-> FALSE,
      langgraph_dev_tested |-> FALSE,
      langgraph_dev_successful |-> FALSE,
      git_branch |-> FALSE,
      commit_message |-> None,
      git_pushed |-> FALSE,
      success |-> FALSE,
      error_log |-> <<>> ]

\* calls: how often each node ran, and how often the run issued `git clone`
\* (clone_cmd), called the generation service for the first artifact
\* (generate_api), issued a commit or a push command, and killed the sandbox;
\* failed_on is what the failed validation attempts so far have in common:
\* "phase1" (run_basic_execution returned a failure), "missing_export" (the dev
\* server failed for a missing graph export), "mixed" otherwise, "none" while no
\* attempt has failed
NoCalls ==
    [ clone_repository |-> 0, clone_cmd |-> 0, generate_api |-> 0,
      run_code |-> 0, failed_on |-> "none", revise |-> 0,
      git_operations |-> 0, commit_cmd |-> 0, push_cmd |-> 0,
      cleanup_sandbox |-> 0, kill |-> 0 ]

Count(name) == [calls EXCEPT ![name] = @ + 1]

Count2(a, b) == [calls EXCEPT ![a] = @ + 1, ![b] = @ + 1]

\* attempt: what the latest validation attempt executed.  phase1, config and dev
\* say whether run_basic_execution, setup_langgraph_config and
\* test_langgraph_dev ran and how they ended.
NoAttempt == [phase1 |-> "none", config |-> "none", dev |-> "none"]

----------------------------------------------------------------------------
(* The graph *)

Nodes ==
    { "create_sandbox", "clone_repository", "generate_code_with_claude",
      "run_code", "revise_code_with_claude", "write_code_to_file",
      "write_code_to_file_local_only", "git_operations", "cleanup_sandbox" }

\* a router that still revises when revision_attempts equals the budget
check_execution_result_OffByOne(s) ==
    IF s.execution_successful THEN "write_code_to_file"
    ELSE IF s.revision_attempts <= s.max_revision_attempts
         THEN "revise_code_with_claude"
         ELSE "write_code_to_file_local_only"

\* a router with its two failure branches exchanged
check_execution_result_Swapped(s) ==
    IF s.execution_successful THEN "write_code_to_file"
    ELSE IF s.revision_attempts < s.max_revision_attempts
         THEN "write_code_to_file_local_only"
         ELSE "revise_code_with_claude"

\* check_execution_result, the router after run_code
check_execution_result(s) ==
    IF s.execution_successful THEN "write_code_to_file"
    ELSE IF s.revision_attempts < s.max_revision_attempts
         THEN "revise_code_with_claude"
         ELSE "write_code_to_file_local_only"

\* a graph whose validated write goes to the teardown directly
Edge_ProceedSkipsPublisher(node) ==
    CASE node = "create_sandbox" -> "clone_repository"
      [] node = "clone_repository" -> "generate_code_with_claude"
      [] node = "generate_code_with_claude" -> "run_code"
      [] node = "revise_code_with_claude" -> "run_code"
      [] node = "write_code_to_file" -> "cleanup_sandbox"
      [] node = "git_operations" -> "cleanup_sandbox"
      [] node = "write_code_to_file_local_only" -> "cleanup_sandbox"
      [] node = "cleanup_sandbox" -> "END"

\* a graph whose local-only write leads to the publisher
Edge_LocalOnlyPublishes(node) ==
    CASE node = "create_sandbox" -> "clone_repository"
      [] node = "clone_repository" -> "generate_code_with_claude"
      [] node = "generate_code_with_claude" -> "run_code"
      [] node = "revise_code_with_claude" -> "run_code"
      [] node = "write_code_to_file" -> "git_operations"
      [] node = "git_operations" -> "cleanup_sandbox"
      [] node = "write_code_to_file_local_only" -> "git_operations"
      [] node = "cleanup_sandbox" -> "END"

\* builder.add_edge(a, b): the unconditional edges of build_modular_graph
Edge(node) ==
    CASE node = "create_sandbox" -> "clone_repository"
      [] node = "clone_repository" -> "generate_code_with_claude"
      [] node = "generate_code_with_claude" -> "run_code"
      [] node = "revise_code_with_claude" -> "run_code"
      [] node = "write_code_to_file" -> "git_operations"
      [] node = "git_operations" -> "cleanup_sandbox"
      [] node = "write_code_to_file_local_only" -> "cleanup_sandbox"
      [] node = "cleanup_sandbox" -> "END"

----------------------------------------------------------------------------
(* Step 1: create_sandbox *)

create_sandbox(s, created) ==
    LET init == [ sandbox |-> created,
                  revision_attempts |-> 0,
                  max_revision_attempts |-> s.max_revision_attempts,
                  last_error_name |-> None,
                  last_error_type |-> None,
                  execution_successful |-> FALSE,
                  langgraph_config_setup |-> FALSE,
                  langgraph_dev_tested |-> FALSE,
                  langgraph_dev_successful |-> FALSE,
                  git_pushed |-> FALSE,
                  git_branch |-> FALSE,
                  commit_message |-> None ]
    IN  IF created
        THEN Merge(s, init)
        ELSE Merge(Merge(s, init),
                   [error_log |-> Append(s.error_log, "Failed to create sandbox")])

CreateSandbox ==
    /\ pc = "create_sandbox"
    /\ \E created \in BOOLEAN : state' = create_sandbox(state, created)
    /\ UNCHANGED calls
    /\ pc' = Edge("create_sandbox")
    /\ UNCHANGED <<attempt, route, dev_input, git_input, repo, pkg, claude, par, git_trace, worktree>>

----------------------------------------------------------------------------
(* Step 2: clone_repository_with_token *)

\* what the sandbox answers to `rm -rf` and `git clone`
CloneOutcomes == {"cloned", "rm_raises", "clone_exit_nonzero", "clone_raises"}

\* the `git clone` command is issued unless the step failed before reaching it
CloneCommandRuns(s, outcome) == s.sandbox /\ outcome # "rm_raises"

clone_repository_with_token(s, outcome) ==
    IF s.sandbox /\ outcome = "cloned"
    THEN Merge(s, [repo_path |-> TRUE, repo_cloned |-> TRUE])
    ELSE Merge(s, [repo_path |-> FALSE, repo_cloned |-> FALSE,
                   error_log |-> Append(s.error_log, "Failed to clone repository")])

CloneRepository ==
    /\ pc = "clone_repository"
    /\ \E outcome \in CloneOutcomes :
          /\ state' = clone_repository_with_token(state, outcome)
          /\ calls' = IF CloneCommandRuns(state, outcome)
                      THEN Count2("clone_repository", "clone_cmd")
                      ELSE Count("clone_repository")
    /\ pc' = Edge("clone_repository")
    /\ UNCHANGED <<attempt, route, dev_input, git_input, repo, pkg, claude, par, git_trace, worktree>>

----------------------------------------------------------------------------
(* The code-generation client: what the upstream call answers *)

\* kind "no_call": the step raised before client.invoke (no API key, prompt or
\* template file unreadable); "error": client.invoke raised; "content": a reply.
\* A reply is raw text, or text wrapped in a code fence around `body`.
Replies ==
    [kind : {"no_call", "error"}, fenced : {FALSE}, body : {""}]
      \cup [kind : {"content"}, fenced : {FALSE}, body : Artifacts \cup {"", " "}]
      \cup [kind : {"content"}, fenced : {TRUE}, body : Artifacts \cup {"", " "}]

ApiCalled(reply) == reply.kind # "no_call"

\* An artifact is an opaque text: the program compares it with nothing and only
\* stores it, in generated_code and in the working copy.  The service's reply is
\* therefore drawn from the artifacts the run holds and one artifact it does not
\* hold, the first by name; any other new artifact gives the same run renamed.
HeldArtifacts(s) == Artifacts \cap {s.generated_code, worktree}

NewArtifacts(s) ==
    {ArtifactNames[i] : i \in {i \in 1..NumArtifacts :
        /\ ArtifactNames[i] \notin HeldArtifacts(s)
        /\ \A j \in 1..(i - 1) : ArtifactNames[j] \in HeldArtifacts(s)}}

RepliesTo(s) ==
    {reply \in Replies :
        reply.body \in Artifacts => reply.body \in HeldArtifacts(s) \cup NewArtifacts(s)}

\* lines 274-289 / 977-992: the text kept from a reply, or "raise"
ExtractCode(reply) ==
    IF reply.kind # "content" THEN "raise"
    ELSE IF ~reply.fenced
         THEN IF reply.body = "" THEN "raise" ELSE reply.body
         ELSE Strip(reply.body)

----------------------------------------------------------------------------
(* Step 3: generate_code_with_claude *)

generate_code_with_claude(s, reply) ==
    IF ExtractCode(reply) = "raise"
    THEN Merge(s, [generated_code |-> None, code_generated |-> FALSE,
                   error_log |-> Append(s.error_log, "Failed to generate code with Claude")])
    ELSE Merge(s, [generated_code |-> ExtractCode(reply), code_generated |-> TRUE])

GenerateCode ==
    /\ pc = "generate_code_with_claude"
    /\ \E reply \in RepliesTo(state) :
          /\ state' = generate_code_with_claude(state, reply)
          /\ calls' = IF ApiCalled(reply) THEN Count("generate_api") ELSE calls
    /\ pc' = Edge("generate_code_with_claude")
    /\ UNCHANGED <<attempt, route, dev_input, git_input, repo, pkg, claude, par, git_trace, worktree>>

----------------------------------------------------------------------------
(* Step 4, Phase 1: run_basic_execution *)

\* what sandbox.run_code(generated_code) answers: no error; stderr without an
\* error token; execution.error set; stderr with "traceback" and no "Error:";
\* or the call itself raising
ExecOutcomes == {"ok", "stderr_warning", "error", "stderr_traceback", "raise"}

\* lines 545-587: success unless execution.error is set or stderr holds
\* "error"/"traceback"
ExecSucceeds(e) == e \in {"ok", "stderr_warning"}

ExecErrorName(e) ==
    IF e = "error" THEN "execution.error.name" ELSE None

\* Lines 499-502 raise ValueError("No sandbox available") before line 504 binds
\* generated_code; the handler at lines 618-640 then reads generated_code
\* (line 625), which raises UnboundLocalError out of run_basic_execution.
run_basic_execution_raises(s) == ~s.sandbox

run_basic_execution(s, e) ==
    IF Falsy(s.generated_code) \/ e = "raise"
    THEN Merge(s, [execution_successful |-> FALSE,
                   last_error_type |-> "execution",
                   last_error_name |-> "ExecutionException",
                   error_log |-> Append(s.error_log, "Failed to run basic execution")])
    ELSE Merge(s, [execution_successful |-> ExecSucceeds(e),
                   last_error_type |-> IF ExecSucceeds(e) THEN None ELSE "execution",
                   last_error_name |-> ExecErrorName(e)])

----------------------------------------------------------------------------
(* Step 4.1: setup_langgraph_config *)

\* sandbox.files.write of langgraph.json / .env succeeds or raises
ConfigOutcomes == {"written", "raise"}

setup_langgraph_config(s, c) ==
    IF s.sandbox /\ s.repo_path /\ c = "written"
    THEN Merge(s, [langgraph_config_setup |-> TRUE])
    ELSE Merge(s, [langgraph_config_setup |-> FALSE,
                   error_log |-> Append(s.error_log, "Failed to setup LangGraph environment")])

----------------------------------------------------------------------------
(* Step 4.3: test_langgraph_dev *)

success_indicators ==
    { "server started in", "<rocket> api:", "registering graph with id",
      "welcome to", "server running", "listening on",
      "application startup complete" }

error_indicators ==
    { "compilation failed", "graph compilation failed", "missing graph",
      "graph 'graph' not found", "invalid state", "state schema error",
      "traceback", "error:", "failed to start", "module not found" }

Phrases == success_indicators \cup error_indicators

\* A dev-server output is described by the marker phrases written in it: a set
\* of at most n of the given phrases.
RECURSIVE OutputsUpTo(_, _)
OutputsUpTo(n, phrases) ==
    IF n = 0 THEN {{}}
    ELSE LET smaller == OutputsUpTo(n - 1, phrases)
         IN  smaller \cup {o \cup {p} : o \in smaller, p \in phrases}

\* every output of at most MaxMarkers marker phrases
Outputs == OutputsUpTo(MaxMarkers, Phrases)

\* the outputs a dev server gives within a run of the graph: a start-up phrase,
\* a phrase with a sub-category of its own and one without
RunPhrases == {"server started in", "missing graph", "traceback"}

RunOutputs == OutputsUpTo(MaxMarkers, RunPhrases)

\* `indicator in output_lower`: substring containment; the one indicator that
\* is a substring of another is "compilation failed"
Contains(output, indicator) ==
    \E p \in output :
        \/ p = indicator
        \/ (indicator = "compilation failed" /\ p = "graph compilation failed")

has_success(output) == \E i \in success_indicators : Contains(output, i)

has_error(output) == \E i \in error_indicators : Contains(output, i)

\* a sub-category chain that looks for the missing dependency first
DevErrorType_DependencyFirst(output) ==
    IF Contains(output, "module not found")
    THEN "Missing dependencies"
    ELSE IF Contains(output, "compilation failed") \/ Contains(output, "graph compilation failed")
    THEN "Graph compilation failed"
    ELSE IF Contains(output, "missing graph") \/ Contains(output, "graph 'graph' not found")
    THEN "Graph export missing"
    ELSE IF Contains(output, "invalid state") \/ Contains(output, "state schema error")
    THEN "State schema error"
    ELSE "LangGraph dev startup failed"

\* lines 831-840
DevErrorType(output) ==
    IF Contains(output, "compilation failed") \/ Contains(output, "graph compilation failed")
    THEN "Graph compilation failed"
    ELSE IF Contains(output, "missing graph") \/ Contains(output, "graph 'graph' not found")
    THEN "Graph export missing"
    ELSE IF Contains(output, "invalid state") \/ Contains(output, "state schema error")
    THEN "State schema error"
    ELSE IF Contains(output, "module not found")
    THEN "Missing dependencies"
    ELSE "LangGraph dev startup failed"

\* the sandbox raises before or after graph.py is written, or the dev command
\* returns an output
DevOutcomesOf(outputs) ==
    [kind : {"raise_before_write", "raise_after_write"}, output : {{}}]
      \cup [kind : {"output"}, output : outputs]

DevOutcomes == DevOutcomesOf(Outputs)

RunDevOutcomes == DevOutcomesOf(RunOutputs)

\* lines 737-757 and every sandbox call raise into the handler at 856-871
DevRaises(s, d) ==
    ~s.sandbox \/ ~s.repo_path \/ Falsy(s.generated_code) \/ d.kind # "output"

\* a classification that also accepts an output without any marker
DevStarted_Lenient(output) == has_success(output) \/ ~has_error(output)

\* lines 817-820: the classification of an output
DevStarted(output) == has_success(output) /\ ~has_error(output)

test_langgraph_dev(s, d) ==
    IF DevRaises(s, d)
    THEN Merge(s, [langgraph_dev_tested |-> TRUE,
                   langgraph_dev_successful |-> FALSE,
                   code_written |-> TRUE,
                   last_error_type |-> "langgraph_dev",
                   last_error_name |-> "LangGraph dev test exception",
                   error_log |-> Append(s.error_log, "LangGraph dev test failed")])
    ELSE IF DevStarted(d.output)
    THEN Merge(s, [langgraph_dev_tested |-> TRUE,
                   langgraph_dev_successful |-> TRUE,
                   code_written |-> TRUE])
    ELSE Merge(s, [langgraph_dev_tested |-> TRUE,
                   langgraph_dev_successful |-> FALSE,
                   code_written |-> TRUE,
                   last_error_type |-> "langgraph_dev",
                   last_error_name |-> DevErrorType(d.output)])

----------------------------------------------------------------------------
(* Step 4: run_code, the two-phase validator *)

\* what one validation attempt executed: the observer record `attempt`
Ran(p1, cfg, dev) == [phase1 |-> p1, config |-> cfg, dev |-> dev]

DevVerdict(s, d) ==
    IF DevRaises(s, d) THEN "exception"
    ELSE IF test_langgraph_dev(s, d).langgraph_dev_successful THEN "ok" ELSE "failed"

\* a validator that goes on to Phase 2 after a failed Phase 1
run_code_NoShortCircuit(s, e, c, d) ==
    IF run_basic_execution_raises(s)
    THEN [st |-> s, ran |-> Ran("raised", "none", "none"), raised |-> TRUE]
    ELSE
    LET basic_result == run_basic_execution(s, e)
        p1 == IF basic_result.execution_successful THEN "ok" ELSE "failed"
        config_result == setup_langgraph_config(basic_result, c)
    IN  IF ~config_result.langgraph_config_setup
        THEN [st |-> Merge(config_result, [execution_successful |-> basic_result.execution_successful]),
              ran |-> Ran(p1, "failed", "none"), raised |-> FALSE]
        ELSE
        LET langgraph_result == test_langgraph_dev(config_result, d)
            ran == Ran(p1, "ok", DevVerdict(config_result, d))
        IN  [st |-> Merge(langgraph_result, [execution_successful |->
                        langgraph_result.execution_successful
                          /\ langgraph_result.langgraph_dev_successful]),
             ran |-> ran, raised |-> FALSE]

\* a validator that keeps the Phase 1 verdict whatever the dev server says
run_code_KeepsBasicSuccess(s, e, c, d) ==
    IF run_basic_execution_raises(s)
    THEN [st |-> s, ran |-> Ran("raised", "none", "none"), raised |-> TRUE]
    ELSE
    LET basic_result == run_basic_execution(s, e)
    IN  IF ~basic_result.execution_successful
        THEN [st |-> basic_result, ran |-> Ran("failed", "none", "none"), raised |-> FALSE]
        ELSE
        LET config_result == setup_langgraph_config(basic_result, c)
        IN  IF ~config_result.langgraph_config_setup
            THEN [st |-> Merge(config_result, [execution_successful |-> TRUE]),
                  ran |-> Ran("ok", "failed", "none"), raised |-> FALSE]
            ELSE
            LET langgraph_result == test_langgraph_dev(config_result, d)
                IN  [st |-> langgraph_result,
                 ran |-> Ran("ok", "ok", DevVerdict(config_result, d)),
                 raised |-> FALSE]

\* run_code(state) with the sandbox answering e, c and d; st is the state
\* returned, ran what was executed, raised whether the call raised instead of
\* returning
run_code(s, e, c, d) ==
    IF run_basic_execution_raises(s)
    THEN [st |-> s, ran |-> Ran("raised", "none", "none"), raised |-> TRUE]
    ELSE
    LET basic_result == run_basic_execution(s, e)
    IN  IF ~basic_result.execution_successful
        THEN [st |-> basic_result, ran |-> Ran("failed", "none", "none"), raised |-> FALSE]
        ELSE
        LET config_result == setup_langgraph_config(basic_result, c)
        IN  IF ~config_result.langgraph_config_setup
            THEN [st |-> Merge(config_result, [execution_successful |-> TRUE]),
                  ran |-> Ran("ok", "failed", "none"), raised |-> FALSE]
            ELSE
            LET langgraph_result == test_langgraph_dev(config_result, d)
                basic_success == langgraph_result.execution_successful
                langgraph_success == langgraph_result.langgraph_dev_successful
                    ran == Ran("ok", "ok", DevVerdict(config_result, d))
            IN  IF basic_success /\ langgraph_success
                THEN [st |-> langgraph_result, ran |-> ran, raised |-> FALSE]
                ELSE IF basic_success
                THEN [st |-> Merge(langgraph_result, [execution_successful |-> FALSE]),
                      ran |-> ran, raised |-> FALSE]
                ELSE [st |-> langgraph_result, ran |-> ran, raised |-> FALSE]

NoDevOutcome == [kind |-> "output", output |-> {}]

\* the attempt ended at lines 829-854 with error_type "Graph export missing"
MissingExport(ran, d) ==
    ran.dev = "failed" /\ DevErrorType(d.output) = "Graph export missing"

\* the observer failed_on after the attempt r = run_code(state, e, c, d)
FailedOn(before, r, d) ==
    LET kind == IF r.ran.phase1 = "failed" THEN "phase1"
                ELSE IF MissingExport(r.ran, d) THEN "missing_export"
                ELSE "mixed"
    IN  IF r.raised \/ r.st.execution_successful THEN before
        ELSE IF before \in {"none", kind} THEN kind
        ELSE "mixed"

\* The sandbox's answers to one validation attempt; an answer to a call that a
\* failed earlier phase leaves unasked is left at its first value.
ConfigAnswers(e) == IF ExecSucceeds(e) THEN ConfigOutcomes ELSE {"written"}

DevAnswers(e, c) ==
    IF ExecSucceeds(e) /\ c = "written" THEN RunDevOutcomes ELSE {NoDevOutcome}

\* lines 737-774: the dev-server test reaches its write of graph.py
DevWrites(s, d) ==
    s.sandbox /\ s.repo_path /\ ~Falsy(s.generated_code) /\ d.kind # "raise_before_write"

\* graph.py in the working copy after run_code: only the dev-server test writes it
graph_py_after_run_code(s, r, d) ==
    IF ~r.raised /\ r.ran.dev # "none" /\ DevWrites(s, d)
    THEN s.generated_code
    ELSE worktree

\* The node run_code followed by the conditional edge check_execution_result.
\* An exception leaving the node ends graph.invoke: no later node runs.
RunCode ==
    /\ pc = "run_code"
    /\ \E e \in ExecOutcomes : \E c \in ConfigAnswers(e) : \E d \in DevAnswers(e, c) :
          LET r == run_code(state, e, c, d)
          IN  /\ attempt' = r.ran
              /\ calls' = [calls EXCEPT !.run_code = @ + 1,
                                        !.failed_on = FailedOn(@, r, d)]
              /\ worktree' = graph_py_after_run_code(state, r, d)
              /\ IF r.raised
                 THEN /\ pc' = "raised"
                      /\ UNCHANGED <<state, route>>
                 ELSE /\ state' = r.st
                      /\ route' = check_execution_result(r.st)
                      /\ pc' = check_execution_result(r.st)
    /\ UNCHANGED <<dev_input, git_input, repo, pkg, claude, par, git_trace>>

----------------------------------------------------------------------------
(* Step 4.5: revise_code_with_claude *)

\* a revision that compares no lengths: only an unusable reply makes it raise
ReviseRaises_IgnoresMissingCode(s, reply) == ExtractCode(reply) = "raise"

\* Lines 892-995.  The reply is read as in generate; line 995 then computes
\* len(generated_code), which raises TypeError when generated_code is None.
ReviseRaises(s, reply) == ExtractCode(reply) = "raise" \/ s.generated_code = None

\* a revision that counts itself twice
revise_code_with_claude_CountsTwice(s, reply) ==
    IF ReviseRaises(s, reply)
    THEN Merge(s, [revision_attempts |-> s.revision_attempts + 2,
                   error_log |-> Append(s.error_log, "Failed to revise code with Claude")])
    ELSE Merge(s, [generated_code |-> ExtractCode(reply),
                   revision_attempts |-> s.revision_attempts + 2])

\* variant: a failed revision that drops the artifact, as a failed generation does
revise_code_with_claude_DropsArtifact(s, reply) ==
    IF ReviseRaises(s, reply)
    THEN Merge(s, [generated_code |-> None,
                   revision_attempts |-> s.revision_attempts + 1,
                   error_log |-> Append(s.error_log, "Failed to revise code with Claude")])
    ELSE Merge(s, [generated_code |-> ExtractCode(reply),
                   revision_attempts |-> s.revision_attempts + 1])

\* lines 874-1019
revise_code_with_claude(s, reply) ==
    IF ReviseRaises(s, reply)
    THEN Merge(s, [revision_attempts |-> s.revision_attempts + 1,
                   error_log |-> Append(s.error_log, "Failed to revise code with Claude")])
    ELSE Merge(s, [generated_code |-> ExtractCode(reply),
                   revision_attempts |-> s.revision_attempts + 1])

ReviseCode ==
    /\ pc = "revise_code_with_claude"
    /\ \E reply \in RepliesTo(state) :
          /\ state' = revise_code_with_claude(state, reply)
          /\ calls' = Count("revise")
    /\ pc' = Edge("revise_code_with_claude")
    /\ UNCHANGED <<attempt, route, dev_input, git_input, repo, pkg, claude, par, git_trace, worktree>>

----------------------------------------------------------------------------
(* Step 5: write_code_to_file / write_code_to_file_local_only *)

\* lines 1056-1059
WriteRaises(s) == Falsy(s.generated_code) \/ Strip(s.generated_code) = ""

\* download: state.get("download", False), an input read here only;
\* localSaved: the local file could be opened and written (lines 1070-1089)
LocalSaves == {<<dl, saved>> : dl \in BOOLEAN, saved \in BOOLEAN}

write_code_to_file_base(s, local) ==
    IF WriteRaises(s)
    THEN Merge(s, [code_written |-> FALSE,
                   error_log |-> Append(s.error_log, "Failed to write code")])
    ELSE Merge(s, [code_written |-> TRUE,
                   local_file_path |-> (local[1] /\ local[2])])

\* lines 1092-1096: the write into the sandbox is attempted, unless the flags
\* say that the dev-server test has written the file already
SandboxWrites(s) ==
    /\ ~WriteRaises(s)
    /\ s.sandbox /\ s.repo_path
    /\ ~(s.code_written /\ s.langgraph_dev_tested)

\* lines 1097-1115: graph.py in the working copy after write_code_to_file;
\* `written`: sandbox.files.write returned (a raise is caught at line 1113)
graph_py_after_write(s, written) ==
    IF SandboxWrites(s) /\ written THEN s.generated_code ELSE worktree

WriteCodeToFile ==
    /\ pc = "write_code_to_file"
    /\ \E local \in LocalSaves : state' = write_code_to_file_base(state, local)
    /\ \E written \in (IF SandboxWrites(state) THEN BOOLEAN ELSE {TRUE}) :
          worktree' = graph_py_after_write(state, written)
    /\ UNCHANGED calls
    /\ pc' = Edge("write_code_to_file")
    /\ UNCHANGED <<attempt, route, dev_input, git_input, repo, pkg, claude, par, git_trace>>

WriteCodeToFileLocalOnly ==
    /\ pc = "write_code_to_file_local_only"
    /\ \E local \in LocalSaves : state' = write_code_to_file_base(state, local)
    /\ UNCHANGED calls
    /\ pc' = Edge("write_code_to_file_local_only")
    /\ UNCHANGED <<attempt, route, dev_input, git_input, repo, pkg, claude, par, git_trace, worktree>>

----------------------------------------------------------------------------
(* Step 6: git_operations *)

\* file_content_map.keys(), in the order resolve_merge_conflicts_automatically
\* writes them
OwnedFiles ==
    << "src/agent/graph.py", "src/agent/__init__.py", ".env", "langgraph.json",
       "requirements.txt" >>

OwnedSet == {OwnedFiles[i] : i \in 1..Len(OwnedFiles)}

\* the content of a file in which a merge left both sides
Conflicted == "conflicted"

\* file_content.split('\n'): a merged file holds the three marker lines, any
\* other content is a single line that is no marker
FileLines(content) ==
    IF content = Conflicted
    THEN <<"<<<<<<< HEAD", "ours", "=======", "theirs", ">>>>>>> origin">>
    ELSE <<content>>

\* lines 1164-1166: startswith('<<<<<<< '), == '=======', startswith('>>>>>>> ')
MarkerLines == {"<<<<<<< HEAD", "=======", ">>>>>>> origin"}

has_conflicts(content) ==
    LET lines == FileLines(content)
    IN  \E i \in 1..Len(lines) : lines[i] \in MarkerLines

\* detect_merge_conflict_markers(sandbox, repo_path, files_to_check) on the
\* working tree `tree` (file -> content)
detect_merge_conflict_markers(tree) ==
    [f \in OwnedSet |-> has_conflicts(tree[f])]

\* any(conflicts.values())
AnyConflict(tree) ==
    LET conflicts == detect_merge_conflict_markers(tree)
    IN  \E f \in OwnedSet : conflicts[f]

\* src/agent/graph.py as the clone left it in the working copy (absent or the
\* repository's own file)
Cloned == "cloned"

\* the content of an owned file when the publisher starts: graph.py is what
\* the working copy holds, the other files are what this run wrote
OwnContent(s, f) ==
    CASE f = "src/agent/graph.py" -> worktree
      [] f = "src/agent/__init__.py" -> "# agent package"
      [] f = ".env" -> "env_content"
      [] f = "langgraph.json" -> "config_content"
      [] OTHER -> "repo requirements"

\* the working tree once `git pull` has run: the files in `conflicted` hold
\* marker lines
WorkTree(s, conflicted) ==
    [f \in OwnedSet |-> IF f \in conflicted THEN Conflicted ELSE OwnContent(s, f)]

\* a variant that keeps the working-tree content of graph.py, as for .env
file_content_map_KeepsGraph(s, tree, template) ==
    [f \in OwnedSet |->
        CASE f = "src/agent/graph.py" -> tree[f]
          [] f = "src/agent/__init__.py" -> "# agent package"
          [] f \in {".env", "langgraph.json"} -> tree[f]
          [] OTHER -> IF template THEN "requirements_template" ELSE None]

\* lines 1333-1365 and 1430-1461: .env and langgraph.json are read back from
\* the working tree, requirements.txt comes from the local template if it exists
file_content_map(s, tree, template) ==
    [f \in OwnedSet |->
        CASE f = "src/agent/graph.py" ->
               IF Falsy(s.generated_code) THEN None ELSE s.generated_code
          [] f = "src/agent/__init__.py" -> "# agent package"
          [] f \in {".env", "langgraph.json"} -> tree[f]
          [] OTHER -> IF template THEN "requirements_template" ELSE None]

\* the loop of resolve_merge_conflicts_automatically from the i-th file on;
\* `fault` is the file whose sandbox.files.write raises ("none": no write raises)
RECURSIVE WriteFrom(_, _, _, _)
WriteFrom(i, tree, content_map, fault) ==
    IF i > Len(OwnedFiles) THEN [tree |-> tree, ok |-> TRUE]
    ELSE LET f == OwnedFiles[i]
         IN  IF content_map[f] = None
             THEN WriteFrom(i + 1, tree, content_map, fault)
             ELSE IF f = fault THEN [tree |-> tree, ok |-> FALSE]
             ELSE WriteFrom(i + 1, [tree EXCEPT ![f] = content_map[f]],
                            content_map, fault)

resolve_merge_conflicts_automatically(tree, content_map, fault) ==
    WriteFrom(1, tree, content_map, fault)

\* What the sandbox answers to the publisher's commands, in the order the
\* publisher issues them.
BaseGitEnv ==
    [ config |-> TRUE,          \* the three `git config` commands exit 0
      checkout |-> TRUE,        \* checkout / checkout -b exits 0
      temp |-> "none",          \* lines 1283-1299: the temporary commit
      sync |-> "scan",          \* the pull returns, or raises past the scan
      conflicted |-> {},        \* the files the pull left with marker lines
      fault1 |-> "none",        \* the write that raises in the sync's resolution
      template |-> TRUE,        \* requirements_template.txt exists locally
      req_write |-> TRUE,       \* line 1402: writing requirements.txt returns
      add |-> TRUE,             \* lines 1414-1416: `git add` returns
      fault2 |-> "none",        \* the write that raises in the final resolution
      merge_head |-> TRUE,      \* test -f .git/MERGE_HEAD exits 0
      staged |-> TRUE,          \* git diff --cached --quiet finds changes
      commit |-> TRUE,          \* commit / amend / merge commit exits 0
      token |-> TRUE,           \* GITHUB_TOKEN is set
      remote |-> "ok",          \* git remote set-url
      push |-> "ok",            \* git push
      force |-> "ok" ]          \* git push --force

PushEnv(token, remote, push, force) ==
    [token |-> token, remote |-> remote, push |-> push, force |-> force]

NoPush == PushEnv(TRUE, "ok", "ok", "ok")

PushEnvs ==
    { PushEnv(FALSE, "ok", "ok", "ok"),
      PushEnv(TRUE, "exit_nonzero", "ok", "ok"),
      PushEnv(TRUE, "raises", "ok", "ok"),
      PushEnv(TRUE, "ok", "ok", "ok"),
      PushEnv(TRUE, "ok", "raises", "ok"),
      PushEnv(TRUE, "ok", "raises", "raises") }

TempOutcomes == {"none", "commit_failed", "committed"}

GitEnv(config, checkout, temp, conflicted, fault2, merge_head, staged, commit, p) ==
    [ BaseGitEnv EXCEPT !.config = config, !.checkout = checkout, !.temp = temp,
                        !.conflicted = conflicted, !.fault2 = fault2,
                        !.merge_head = merge_head, !.staged = staged,
                        !.commit = commit, !.token = p.token,
                        !.remote = p.remote, !.push = p.push, !.force = p.force ]

\* the conflicts met within a run of the graph: none, or the artifact file
RunConflicts == {{}, {"src/agent/graph.py"}}

\* The publisher's environments within a run of the graph: one for each way
\* the publisher ends; an answer to a command the publisher does not reach is
\* left at its first value.
GitEnvs ==
    { GitEnv(FALSE, TRUE, "none", {}, "none", TRUE, TRUE, TRUE, NoPush),
      GitEnv(TRUE, FALSE, "none", {}, "none", TRUE, TRUE, TRUE, NoPush),
      [BaseGitEnv EXCEPT !.add = FALSE] }
      \cup { GitEnv(TRUE, TRUE, t, {"src/agent/graph.py"}, "src/agent/graph.py",
                    TRUE, TRUE, TRUE, NoPush) : t \in {"none", "committed"} }
      \cup { GitEnv(TRUE, TRUE, "committed", {}, "none", TRUE, TRUE, FALSE, NoPush) }
      \cup { GitEnv(TRUE, TRUE, "committed", {}, "none", TRUE, TRUE, TRUE, p) :
               p \in PushEnvs }
      \cup { GitEnv(TRUE, TRUE, "committed", c, "none", FALSE, TRUE, TRUE, NoPush) :
               c \in RunConflicts }
      \cup { GitEnv(TRUE, TRUE, "none", {}, "none", TRUE, FALSE, TRUE, NoPush),
             GitEnv(TRUE, TRUE, "none", {}, "none", TRUE, TRUE, FALSE, NoPush) }
      \cup { GitEnv(TRUE, TRUE, "none", {}, "none", TRUE, TRUE, TRUE, p) :
               p \in PushEnvs }
      \cup { GitEnv(TRUE, TRUE, t, c, "none", TRUE, TRUE, TRUE, NoPush) :
               t \in {"none", "commit_failed"}, c \in RunConflicts }

\* repo: what the publisher committed.  graph is the committed content of
\* src/agent/graph.py, marked the committed files that hold marker lines.
NoCommit == [committed |-> FALSE, graph |-> None, marked |-> {}]

Commit(tree) ==
    [ committed |-> TRUE,
      graph |-> tree["src/agent/graph.py"],
      marked |-> {f \in OwnedSet : has_conflicts(tree[f])} ]

\* branch_name was bound (line 1226) whenever the handler at 1631 runs
GitFailedOnBranch(s) ==
    Merge(s, [git_branch |-> TRUE, commit_message |-> None, git_pushed |-> FALSE,
              error_log |-> Append(s.error_log, "Git operations failed")])

GitResult(st, commits, pushes, repo_) ==
    [st |-> st, commits |-> commits, pushes |-> pushes, repo |-> repo_]

\* the temporary commit command of line 1293 is issued when graph.py is untracked
TempCommits(g) == IF g.temp = "none" THEN 0 ELSE 1

made_temp_commit(g) == g.temp = "committed"

\* a variant whose early return reports a push
NoChanges_Pushed(s) ==
    Merge(s, [git_branch |-> TRUE, commit_message |-> "No changes to commit",
              git_pushed |-> TRUE])

\* lines 1530-1538: nothing is staged, the publisher returns without a commit
NoChanges(s) ==
    Merge(s, [git_branch |-> TRUE, commit_message |-> "No changes to commit",
              git_pushed |-> FALSE])

\* lines 1278-1389: the tree the sync leaves.  A failed resolution raises
\* into the handler at line 1376, which continues.
SyncTree(s, g) ==
    LET pulled == WorkTree(s, g.conflicted)
    IN  IF g.sync = "scan" /\ AnyConflict(pulled)
        THEN resolve_merge_conflicts_automatically(
                 pulled, file_content_map(s, pulled, g.template), g.fault1).tree
        ELSE pulled

\* lines 1391-1407: requirements.txt is overwritten with the template
RequirementsTree(s, g) ==
    IF g.template /\ g.req_write
    THEN [SyncTree(s, g) EXCEPT !["requirements.txt"] = "requirements_template"]
    ELSE SyncTree(s, g)

\* lines 1424-1475: the final scan and resolution before the commit
FinalTree(s, g) ==
    LET staged == RequirementsTree(s, g)
    IN  IF AnyConflict(staged)
        THEN resolve_merge_conflicts_automatically(
                 staged, file_content_map(s, staged, g.template), g.fault2)
        ELSE [tree |-> staged, ok |-> TRUE]

\* a push whose failed forced retry is not reported
GitPush_ForceFailureIgnored(s, g, commits, message, tree) ==
    LET pushed == Merge(s, [git_branch |-> TRUE, commit_message |-> message,
                            git_pushed |-> TRUE])
        made == Commit(tree)
    IN  IF ~g.token THEN GitResult(pushed, commits, 0, made)
        ELSE IF g.remote = "raises" THEN GitResult(GitFailedOnBranch(s), commits, 0, made)
        ELSE IF g.remote = "exit_nonzero" THEN GitResult(pushed, commits, 0, made)
        ELSE IF g.push = "ok" THEN GitResult(pushed, commits, 1, made)
        ELSE GitResult(pushed, commits, 2, made)

\* lines 1574-1621: the push, after a commit was created; `commits` are the
\* commit commands issued so far.  A failed command raises (line 1549: the
\* sandbox raises on a non-zero exit code).
GitPush(s, g, commits, message, tree) ==
    LET pushed == Merge(s, [git_branch |-> TRUE, commit_message |-> message,
                            git_pushed |-> TRUE])
        made == Commit(tree)
    IN  IF ~g.token THEN GitResult(pushed, commits, 0, made)
        ELSE IF g.remote = "raises" THEN GitResult(GitFailedOnBranch(s), commits, 0, made)
        ELSE IF g.remote = "exit_nonzero" THEN GitResult(pushed, commits, 0, made)
        ELSE IF g.push = "ok" THEN GitResult(pushed, commits, 1, made)
        ELSE IF g.force = "ok" THEN GitResult(pushed, commits, 2, made)
        ELSE GitResult(GitFailedOnBranch(s), commits, 2, made)

git_operations(s, g) ==
    IF ~s.sandbox \/ ~s.repo_path THEN GitResult(GitFailedOnBranch(s), 0, 0, NoCommit)
    ELSE IF ~g.config THEN GitResult(GitFailedOnBranch(s), 0, 0, NoCommit)
    ELSE IF ~g.checkout THEN GitResult(GitFailedOnBranch(s), 0, 0, NoCommit)
    ELSE IF ~g.add THEN GitResult(GitFailedOnBranch(s), TempCommits(g), 0, NoCommit)
    ELSE
    LET final == FinalTree(s, g)
    IN
    IF ~final.ok
    THEN GitResult(GitFailedOnBranch(s), TempCommits(g), 0, NoCommit)
    ELSE IF made_temp_commit(g)
    THEN \* lines 1478-1519: complete the merge, or amend the temporary commit
         IF ~g.commit
         THEN GitResult(GitFailedOnBranch(s), TempCommits(g) + 1, 0, NoCommit)
         ELSE GitPush(s, g, TempCommits(g) + 1, "generated message", final.tree)
    ELSE \* lines 1521-1572: the normal commit
         IF ~g.staged
         THEN GitResult(NoChanges(s), TempCommits(g), 0, NoCommit)
         ELSE IF ~g.commit
         THEN GitResult(GitFailedOnBranch(s), TempCommits(g) + 1, 0, NoCommit)
         ELSE GitPush(s, g, TempCommits(g) + 1, "generated message", final.tree)

\* The commands of one publisher run, in the order git_operations issues them
\* (git_trace.steps), and the commits of the run that the branch carries
\* afterwards, oldest first, each by its message (git_trace.log).
NoTrace == [steps |-> <<>>, log |-> <<>>]

\* lines 1278-1299: the temporary commit, attempted when graph.py is untracked
TempSteps(g) ==
    IF g.temp = "none" THEN <<>>
    ELSE IF g.temp = "committed" THEN <<"temp_commit">>
    ELSE <<"temp_commit_failed">>

\* lines 1301-1389: the pull, then the scan and the resolution it may need
SyncSteps(s, g) ==
    IF g.sync # "scan" THEN <<"sync">>
    ELSE IF AnyConflict(WorkTree(s, g.conflicted))
         THEN <<"sync", "post_sync_scan", "resolve">>
         ELSE <<"sync", "post_sync_scan">>

\* lines 1424-1475: the final scan, the resolution and the re-staging
FinalScanSteps(s, g) ==
    IF ~AnyConflict(RequirementsTree(s, g)) THEN <<"final_scan">>
    ELSE IF FinalTree(s, g).ok THEN <<"final_scan", "resolve", "restage">>
    ELSE <<"final_scan", "resolve">>

\* lines 1477-1572
CommitSteps(g) ==
    IF made_temp_commit(g)
    THEN IF g.merge_head THEN <<"merge_commit">> ELSE <<"amend">>
    ELSE IF g.staged THEN <<"commit">> ELSE <<>>

\* lines 1574-1621
PushSteps(g) ==
    IF ~g.token \/ g.remote # "ok" THEN <<>>
    ELSE IF g.push = "ok" THEN <<"push">>
    ELSE <<"push", "force_push">>

\* variant: the final scan made before the files are staged
git_steps_ScanBeforeStaging(s, g) ==
    IF ~s.sandbox \/ ~s.repo_path THEN <<>>
    ELSE IF ~g.config THEN <<"config">>
    ELSE IF ~g.checkout THEN <<"config", "checkout">>
    ELSE LET synced == <<"config", "checkout">> \o TempSteps(g) \o SyncSteps(s, g)
                          \o <<"copy_requirements">>
         IN  IF ~g.add THEN synced \o <<"stage">>
             ELSE LET scanned == synced \o FinalScanSteps(s, g) \o <<"stage">>
                  IN  IF ~FinalTree(s, g).ok THEN scanned
                      ELSE IF CommitSteps(g) = <<>> \/ ~g.commit
                      THEN scanned \o CommitSteps(g)
                      ELSE scanned \o CommitSteps(g) \o PushSteps(g)

git_steps(s, g) ==
    IF ~s.sandbox \/ ~s.repo_path THEN <<>>
    ELSE IF ~g.config THEN <<"config">>
    ELSE IF ~g.checkout THEN <<"config", "checkout">>
    ELSE LET synced == <<"config", "checkout">> \o TempSteps(g) \o SyncSteps(s, g)
                          \o <<"copy_requirements">>
         IN  IF ~g.add THEN synced \o <<"stage">>
             ELSE LET scanned == synced \o <<"stage">> \o FinalScanSteps(s, g)
                  IN  IF ~FinalTree(s, g).ok THEN scanned
                      ELSE IF CommitSteps(g) = <<>> \/ ~g.commit
                      THEN scanned \o CommitSteps(g)
                      ELSE scanned \o CommitSteps(g) \o PushSteps(g)

\* the message of the temporary commit (line 1291) and of the run's commit
TempMessage == "temp: stage graph.py for pull"

RealMessage == "generated message"

\* what the commit commands among `steps` leave on the branch; a commit command
\* that exits non-zero leaves nothing
RECURSIVE branch_log(_, _, _)
branch_log(steps, i, g) ==
    IF i = 0 THEN <<>>
    ELSE LET before == branch_log(steps, i - 1, g)
         IN  CASE steps[i] = "temp_commit" -> Append(before, TempMessage)
               [] steps[i] \in {"commit", "merge_commit"} /\ g.commit ->
                    Append(before, RealMessage)
               [] steps[i] = "amend" /\ g.commit ->
                    Append(SubSeq(before, 1, Len(before) - 1), RealMessage)
               [] OTHER -> before

GitTrace(s, g) ==
    LET steps == git_steps(s, g)
    IN  [steps |-> steps, log |-> branch_log(steps, Len(steps), g)]

\* graph.py in the working copy after the publisher: as the last step reached
\* left it
graph_py_after_git(s, g) ==
    IF ~s.sandbox \/ ~s.repo_path \/ ~g.config \/ ~g.checkout THEN worktree
    ELSE IF ~g.add THEN RequirementsTree(s, g)["src/agent/graph.py"]
    ELSE FinalTree(s, g).tree["src/agent/graph.py"]

GitOperations ==
    /\ pc = "git_operations"
    /\ \E g \in GitEnvs :
          LET r == git_operations(state, g)
          IN  /\ state' = r.st
              /\ repo' = r.repo
              /\ calls' = [calls EXCEPT !.git_operations = @ + 1,
                                        !.commit_cmd = @ + r.commits,
                                        !.push_cmd = @ + r.pushes]
              /\ worktree' = graph_py_after_git(state, g)
    /\ pc' = Edge("git_operations")
    /\ UNCHANGED <<attempt, route, dev_input, git_input, pkg, claude, par, git_trace>>

----------------------------------------------------------------------------
(* Step n: cleanup_sandbox *)

\* a teardown that reports its own failure only
cleanup_sandbox_ResetsLog(s, killed) ==
    IF s.sandbox /\ ~killed
    THEN Merge(s, [sandbox |-> FALSE, success |-> FALSE,
                   error_log |-> <<"Cleanup failed">>])
    ELSE Merge(s, [sandbox |-> FALSE,
                   success |-> (s.execution_successful /\ s.code_written)])

\* variant: a teardown whose failure path keeps the sandbox handle
cleanup_sandbox_KeepsHandle(s, killed) ==
    IF s.sandbox /\ ~killed
    THEN Merge(s, [success |-> FALSE,
                   error_log |-> Append(s.error_log, "Cleanup failed")])
    ELSE Merge(s, [sandbox |-> FALSE,
                   success |-> (s.execution_successful /\ s.code_written)])

\* killed: sandbox.kill() returns; otherwise it raises
cleanup_sandbox(s, killed) ==
    IF s.sandbox /\ ~killed
    THEN Merge(s, [sandbox |-> FALSE, success |-> FALSE,
                   error_log |-> Append(s.error_log, "Cleanup failed")])
    ELSE Merge(s, [sandbox |-> FALSE,
                   success |-> (s.execution_successful /\ s.code_written)])

CleanupSandbox ==
    /\ pc = "cleanup_sandbox"
    /\ \E killed \in BOOLEAN :
          /\ state' = cleanup_sandbox(state, killed)
          /\ calls' = IF state.sandbox
                      THEN Count2("cleanup_sandbox", "kill")
                      ELSE Count("cleanup_sandbox")
          \* sandbox.kill() destroys the sandbox and the working copy in it
          /\ worktree' = IF state.sandbox /\ killed THEN None ELSE worktree
    /\ pc' = Edge("cleanup_sandbox")
    /\ UNCHANGED <<attempt, route, dev_input, git_input, repo, pkg, claude, par, git_trace>>

----------------------------------------------------------------------------
(* Dependency extraction and installation (Phase 1 preparation)

   A source text is a sequence of lines and a line is the sequence of its
   tokens, leading and trailing blanks removed (line.strip()).  pkg records
   the source scanned, the packages found, what the sandbox answered to the
   pip commands, the commands run and whether the artifact was executed. *)

\* tokens that the pattern [a-zA-Z_][a-zA-Z0-9_]* does not match
Punctuation == {".", ",", "#", "=", "1"}

IsName(t) == t \notin Punctuation

\* the lines a source text is built from
SourceLines ==
    { <<"from", "langchain_core", ".", "runnables", "import", "RunnableConfig">>,
      <<"import", "requests">>,
      <<"import", "os">>,
      <<"import", "os", ",", "requests">>,
      <<"import", "mylib", ".", "tools">>,
      <<"import", "_private">>,
      <<"from", ".", "import", "helpers">>,
      <<"#", "import", "mylib">>,
      <<"x", "=", "1">>,
      <<>> }

RECURSIVE CodesUpTo(_)
CodesUpTo(n) ==
    IF n = 0 THEN {<<>>}
    ELSE LET shorter == CodesUpTo(n - 1)
         IN  shorter \cup {Append(c, l) : c \in shorter, l \in SourceLines}

\* sample_code of test_package_extraction
SampleCode ==
    << <<>>,
       <<"from", "langchain_core", ".", "runnables", "import", "RunnableConfig">>,
       <<"from", "langgraph", ".", "graph", "import", "StateGraph">>,
       <<"import", "asyncio">>,
       <<"import", "json">>,
       <<"from", "pydantic", "import", "BaseModel">>,
       <<"import", "requests">>,
       <<"import", "os">>,
       <<>> >>

Codes == CodesUpTo(MaxLines) \cup {SampleCode}

package_mappings ==
    [ langchain_core |-> "langchain-core",
      langchain_community |-> "langchain-community",
      langchain_openai |-> "langchain-openai",
      langgraph |-> "langgraph",
      pydantic |-> "pydantic",
      typing_extensions |-> "typing-extensions",
      numpy |-> "numpy",
      pandas |-> "pandas",
      requests |-> "requests",
      aiohttp |-> "aiohttp",
      httpx |-> "httpx",
      openai |-> "openai",
      anthropic |-> "anthropic" ]

builtin_modules ==
    { "__future__", "os", "sys", "json", "time", "datetime", "asyncio", "typing",
      "re", "functools", "collections", "itertools", "pathlib",
      "logging", "uuid", "hashlib", "base64", "urllib", "http",
      "email", "csv", "xml", "sqlite3", "threading", "multiprocessing",
      "copy", "pickle", "socket", "struct", "math", "random", "string",
      "io", "contextlib", "warnings", "traceback", "inspect", "gc",
      "weakref", "operator", "abc", "enum", "dataclasses" }

\* re.match at the start of the line: "from" or "import", then a name; the
\* captured group is the dotted path for "from" and, the quantifier of the
\* second group being lazy, the first name alone for "import".  None when the
\* line does not match.
RECURSIVE DottedPath(_, _)
DottedPath(line, i) ==
    IF i + 2 <= Len(line) /\ line[i + 1] = "." /\ IsName(line[i + 2])
    THEN <<line[i]>> \o DottedPath(line, i + 2)
    ELSE <<line[i]>>

import_match(line) ==
    IF Len(line) >= 2 /\ line[1] \in {"from", "import"} /\ IsName(line[2])
    THEN IF line[1] = "from" THEN DottedPath(line, 2) ELSE <<line[2]>>
    ELSE None

\* the pip package one line contributes, None when it contributes nothing
PipPackage(line) ==
    IF line = <<>> \/ line[1] = "#" THEN None
    ELSE LET package_name == import_match(line)
         IN  IF package_name = None THEN None
             ELSE LET root_package == package_name[1]
                  IN  IF root_package \in builtin_modules THEN None
                      ELSE IF root_package \in DOMAIN package_mappings
                           THEN package_mappings[root_package]
                           ELSE root_package

\* the package names of the model in the order Python compares strings
NameOrder ==
    <<"_private", "langchain-core", "langgraph", "mylib", "pydantic", "requests">>

Rank(name) == CHOOSE i \in DOMAIN NameOrder : NameOrder[i] = name

sorted(packages) == SelectSeq(NameOrder, LAMBDA n : n \in packages)

\* variant: list(packages) without the sort, in the order the lines name them
extract_required_packages_Unsorted(code) ==
    LET raw == [i \in DOMAIN code |-> PipPackage(code[i])]
        first == {i \in DOMAIN code :
                     raw[i] # None /\ \A j \in 1..(i - 1) : raw[j] # raw[i]}
        kept == SelectSeq([i \in DOMAIN code |-> i], LAMBDA i : i \in first)
    IN  [k \in DOMAIN kept |-> raw[kept[k]]]

extract_required_packages(code) ==
    LET packages == {PipPackage(code[i]) : i \in DOMAIN code} \ {None}
    IN  sorted(packages)

\* what the sandbox answers to one pip command
PipOutcomes == {"ok", "nonzero", "raise"}

\* the package names of the model that start with an underscore
UnderscoreNames == {"_private"}

\* packages that pass the filter of install_packages_in_sandbox
valid_packages(packages) ==
    SelectSeq(packages, LAMBDA p : p # "" /\ p \notin UnderscoreNames)

\* a command is the sequence of the packages it names
install_packages_in_sandbox(packages, batch, single) ==
    LET valid == valid_packages(packages)
    IN  IF packages = <<>> \/ valid = <<>>
        THEN [result |-> TRUE, commands |-> <<>>]
        ELSE IF batch = "ok"
        THEN [result |-> TRUE, commands |-> <<valid>>]
        ELSE IF batch = "raise"
        THEN [result |-> FALSE, commands |-> <<valid>>]
        ELSE [result |-> \E i \in DOMAIN valid : single[valid[i]] = "ok",
              commands |-> <<valid>> \o [i \in DOMAIN valid |-> <<valid[i]>>]]

NoPackages ==
    [ code |-> <<>>, packages |-> <<>>, batch |-> "none", single |-> <<>>,
      install_success |-> "not_called", commands |-> <<>>, executed |-> FALSE ]

----------------------------------------------------------------------------
(* The requests sent to the generation service

   claude records, for one call of generate_code_with_claude or
   revise_code_with_claude, the node that ran, the reply of the service, the
   state the node was called with and the prompt it sent (None when the node
   failed before it built one). *)

\* last_error_details is the pair <<text before the last 500 characters,
\* the last 500 characters>>
ErrorDetails == { <<"", "Traceback A">>, <<"earlier output", "Traceback A">>,
                  <<"earlier output", "Traceback B">> }

\* last_error_details[-500:]
Last500(details) == details[2]

\* variant: a prompt that also quotes the error log
revision_prompt_QuotesErrorLog(s) ==
    IF s.last_error_type = "langgraph_dev"
    THEN [ template |-> "langgraph_dev",
           code |-> s.generated_code,
           error_name |-> s.last_error_name,
           error_value |-> s.last_error_value,
           details |-> <<Last500(s.last_error_details), s.error_log>> ]
    ELSE [ template |-> "execution",
           code |-> s.generated_code,
           error_name |-> s.last_error_name,
           error_value |-> s.last_error_value,
           details |-> <<"", s.error_log>> ]

\* lines 891-968: the slots of the two prompt templates
revision_prompt(s) ==
    IF s.last_error_type = "langgraph_dev"
    THEN [ template |-> "langgraph_dev",
           code |-> s.generated_code,
           error_name |-> s.last_error_name,
           error_value |-> s.last_error_value,
           details |-> Last500(s.last_error_details) ]
    ELSE [ template |-> "execution",
           code |-> s.generated_code,
           error_name |-> s.last_error_name,
           error_value |-> s.last_error_value,
           details |-> "" ]

NoRequest ==
    [ node |-> "none",
      reply |-> [kind |-> "no_call", fenced |-> FALSE, body |-> ""],
      before |-> InitialState(DefaultMaxRevisionAttempts),
      request |-> None ]

----------------------------------------------------------------------------
(* Workflow instances running in parallel

   par holds NumInstances runs of the graph started from the same directory
   against the same remote: the wall clock, each instance's position and the
   names it generated, the local files written and the remote branches pushed,
   each with the instance that wrote it. *)

Instances == 1..NumInstances

\* datetime.now().strftime(...%S): the clock truncated to whole seconds
strftime(now) == now \div TicksPerSecond

\* lines 1076-1078
local_filename(now) == <<"./tests/output/generated_graph_", strftime(now), ".py">>

\* lines 1254-1257, for an input without branch_name
branch_name(now) == <<"generated-graph-", strftime(now)>>

NoInstances == [clock |-> 0, inst |-> <<>>, files |-> {}, branches |-> {}]

StartInstance(download) ==
    [ at |-> "write_code_to_file", download |-> download,
      local_file_path |-> None, git_branch |-> None ]

----------------------------------------------------------------------------
(* The run: graph.invoke(input) *)

Init ==
    /\ pc = "create_sandbox"
    /\ \E m \in (0..MaxRevisionBound) \cup {DefaultMaxRevisionAttempts} :
          state = InitialState(m)
    /\ calls = NoCalls
    /\ attempt = NoAttempt
    /\ route = "none"
    /\ git_trace = NoTrace
    /\ worktree = Cloned
    /\ dev_input = NoDevOutcome
    /\ git_input = BaseGitEnv
    /\ repo = NoCommit
    /\ pkg = NoPackages
    /\ claude = NoRequest
    /\ par = NoInstances

Next ==
    \/ CreateSandbox
    \/ CloneRepository
    \/ GenerateCode
    \/ RunCode
    \/ ReviseCode
    \/ WriteCodeToFile
    \/ WriteCodeToFileLocalOnly
    \/ GitOperations
    \/ CleanupSandbox

Spec == Init /\ [][Next]_vars

\* graph.invoke runs the nodes one after another on a single thread: a node that
\* is due runs.
FairSpec == Spec /\ WF_vars(Next)

----------------------------------------------------------------------------
(* A run that may be cancelled: graph.invoke interrupted (KeyboardInterrupt,
   a BaseException that no node's `except Exception` catches) while a node is
   in flight.  The exception leaves graph.invoke; the node's return is lost. *)

Cancel ==
    /\ pc \in Nodes
    /\ pc' = "cancelled"
    /\ UNCHANGED <<state, calls, attempt, route, dev_input, git_input, repo,
                   pkg, claude, par, git_trace, worktree>>

CancelNext == Next \/ Cancel

CancelSpec == Init /\ [][CancelNext]_vars

Cancelled == pc = "cancelled"

\* the run is over: the graph reached END, or an exception left a node
Ended == pc = "END"

Raised == pc = "raised"

----------------------------------------------------------------------------
(* test_langgraph_dev on its own: every bounded dev-server output *)

\* the states run_code hands to test_langgraph_dev: sandbox and clone present,
\* Phase 1 passed, the configuration written
DevPreStates ==
    { setup_langgraph_config(
        run_basic_execution(
          generate_code_with_claude(
            clone_repository_with_token(
              create_sandbox(InitialState(DefaultMaxRevisionAttempts), TRUE),
              "cloned"),
            [kind |-> "content", fenced |-> FALSE, body |-> code]),
          "ok"),
        "written") : code \in Artifacts }

DevInit ==
    /\ pc = "test_langgraph_dev"
    /\ state \in DevPreStates
    /\ dev_input \in DevOutcomes
    /\ git_input = BaseGitEnv
    /\ repo = NoCommit
    /\ pkg = NoPackages
    /\ claude = NoRequest
    /\ par = NoInstances
    /\ calls = NoCalls
    /\ attempt = NoAttempt
    /\ route = "none"
    /\ git_trace = NoTrace
    /\ worktree = Cloned

TestLanggraphDev ==
    /\ pc = "test_langgraph_dev"
    /\ state' = test_langgraph_dev(state, dev_input)
    /\ attempt' = Ran("ok", "ok", DevVerdict(state, dev_input))
    /\ worktree' = IF DevWrites(state, dev_input) THEN state.generated_code ELSE worktree
    /\ pc' = "tested"
    /\ UNCHANGED <<calls, route, dev_input, git_input, repo, pkg, claude, par, git_trace>>

DevNext == TestLanggraphDev

DevSpec == DevInit /\ [][DevNext]_vars

----------------------------------------------------------------------------
(* git_operations on its own: every bounded outcome of the sync *)

\* the sets of owned files a pull may leave in conflict
ConflictSets == OutputsUpTo(MaxConflicted, OwnedSet)

ResolveFaults == {"none"} \cup OwnedSet

\* the environments of the publisher that differ in what the push meets
PushingEnvs ==
    { GitEnv(TRUE, TRUE, t, {}, "none", mh, TRUE, TRUE, p) :
        t \in {"none", "committed"}, mh \in BOOLEAN, p \in PushEnvs }

\* the environments of the publisher: those that differ in what the push meets,
\* in whether the first two commands succeed, and in what happens to the files
PublisherEnvs ==
    PushingEnvs \cup
    { [BaseGitEnv EXCEPT !.config = cf, !.checkout = co] :
        cf \in BOOLEAN, co \in BOOLEAN } \cup
    { [BaseGitEnv EXCEPT !.temp = t, !.sync = sy, !.conflicted = c,
                         !.fault1 = f1, !.template = tp, !.req_write = rw,
                         !.fault2 = f2, !.merge_head = mh, !.commit = cm] :
        t \in TempOutcomes, sy \in {"scan", "raises"},
        c \in ConflictSets, f1 \in ResolveFaults, tp \in BOOLEAN,
        rw \in BOOLEAN, f2 \in ResolveFaults, mh \in BOOLEAN, cm \in BOOLEAN }

\* a dev-server output that starts up
StartedOutcome == [kind |-> "output", output |-> {"server started in"}]

\* the states write_code_to_file hands to git_operations: the first artifact
\* validated (fully, or with the configuration not written) and written
GitPreStates ==
    { write_code_to_file_base(
        run_code(
          generate_code_with_claude(
            clone_repository_with_token(
              create_sandbox(InitialState(DefaultMaxRevisionAttempts), TRUE),
              "cloned"),
            [kind |-> "content", fenced |-> FALSE, body |-> code]),
          "ok", c, StartedOutcome).st,
        <<FALSE, FALSE>>) : code \in Artifacts, c \in ConfigOutcomes }

GitInit ==
    /\ pc = "git_operations"
    /\ state \in GitPreStates
    /\ git_input \in PublisherEnvs
    /\ calls = [NoCalls EXCEPT !.clone_repository = 1, !.clone_cmd = 1,
                               !.generate_api = 1, !.run_code = 1]
    /\ attempt = Ran("ok", IF state.langgraph_config_setup THEN "ok" ELSE "failed",
                     IF state.langgraph_config_setup THEN "ok" ELSE "none")
    /\ route = "write_code_to_file"
    /\ git_trace = NoTrace
    /\ worktree = state.generated_code
    /\ dev_input = NoDevOutcome
    /\ repo = NoCommit
    /\ pkg = NoPackages
    /\ claude = NoRequest
    /\ par = NoInstances

Publish ==
    /\ pc = "git_operations"
    /\ LET r == git_operations(state, git_input)
       IN  /\ state' = r.st
           /\ repo' = r.repo
           /\ calls' = [calls EXCEPT !.git_operations = @ + 1,
                                     !.commit_cmd = @ + r.commits,
                                     !.push_cmd = @ + r.pushes]
    /\ git_trace' = GitTrace(state, git_input)
    /\ worktree' = graph_py_after_git(state, git_input)
    /\ pc' = "published"
    /\ UNCHANGED <<attempt, route, dev_input, git_input, pkg, claude, par>>

GitNext == Publish

GitSpec == GitInit /\ [][GitNext]_vars

----------------------------------------------------------------------------
(* Phase 1 preparation alone: lines 518-531 of run_basic_execution over
   every source text of up to MaxLines lines and every answer of pip *)

PkgInit ==
    /\ pc = "extract_required_packages"
    /\ \E code \in Codes : pkg = [NoPackages EXCEPT !.code = code]
    /\ claude = NoRequest
    /\ par = NoInstances
    /\ state = InitialState(DefaultMaxRevisionAttempts)
    /\ calls = NoCalls
    /\ attempt = NoAttempt
    /\ route = "none"
    /\ git_trace = NoTrace
    /\ worktree = Cloned
    /\ dev_input = NoDevOutcome
    /\ git_input = BaseGitEnv
    /\ repo = NoCommit

ExtractPackages ==
    /\ pc = "extract_required_packages"
    /\ pkg' = [pkg EXCEPT !.packages = extract_required_packages(pkg.code)]
    /\ pc' = "install_packages_in_sandbox"
    /\ UNCHANGED <<state, calls, attempt, route, dev_input, git_input, repo, claude, par, git_trace, worktree>>

\* if required_packages: install_success = install_packages_in_sandbox(...)
InstallPackages ==
    /\ pc = "install_packages_in_sandbox"
    /\ IF pkg.packages = <<>>
       THEN pkg' = pkg
       ELSE \E batch \in PipOutcomes :
            \E single \in [{pkg.packages[i] : i \in DOMAIN pkg.packages} -> PipOutcomes] :
               LET r == install_packages_in_sandbox(pkg.packages, batch, single)
               IN  pkg' = [pkg EXCEPT !.batch = batch, !.single = single,
                                      !.install_success = r.result,
                                      !.commands = r.commands]
    /\ pc' = "sandbox.run_code"
    /\ UNCHANGED <<state, calls, attempt, route, dev_input, git_input, repo, claude, par, git_trace, worktree>>

\* execution = sandbox.run_code(generated_code)
ExecuteCode ==
    /\ pc = "sandbox.run_code"
    /\ pkg' = [pkg EXCEPT !.executed = TRUE]
    /\ pc' = "executed"
    /\ UNCHANGED <<state, calls, attempt, route, dev_input, git_input, repo, claude, par, git_trace, worktree>>

PkgNext == ExtractPackages \/ InstallPackages \/ ExecuteCode

PkgSpec == PkgInit /\ [][PkgNext]_vars

----------------------------------------------------------------------------
(* generate_code_with_claude and revise_code_with_claude alone, over every
   reply of the service *)

\* the states generate_code_with_claude is called with
GeneratePreStates ==
    { clone_repository_with_token(
        create_sandbox(InitialState(DefaultMaxRevisionAttempts), created), o)
        : created \in BOOLEAN, o \in {"cloned", "clone_raises"} }

\* the states revise_code_with_claude is called with: a failed validation of
\* the current artifact (None when the generation failed), after zero or one
\* earlier revision
RevisePreStates ==
    { Merge(generate_code_with_claude(
              clone_repository_with_token(
                create_sandbox(InitialState(DefaultMaxRevisionAttempts), TRUE),
                "cloned"),
              reply),
            [ last_error_type |-> type,
              last_error_name |-> name,
              last_error_value |-> value,
              last_error_details |-> details,
              revision_attempts |-> n,
              error_log |-> log ])
        : reply \in { [kind |-> "content", fenced |-> FALSE, body |-> ArtifactNames[1]],
                      [kind |-> "content", fenced |-> FALSE, body |-> ArtifactNames[2]],
                      [kind |-> "error", fenced |-> FALSE, body |-> ""] },
          type \in {"execution", "langgraph_dev"},
          name \in {"execution.error.name", "Graph export missing"},
          value \in {"name 'x' is not defined", "LangGraph dev validation failed"},
          details \in ErrorDetails,
          n \in 0..1,
          log \in {<<>>, <<"Failed to revise code with Claude">>} }

ClaudeInit ==
    /\ \/ pc = "generate_code_with_claude" /\ state \in GeneratePreStates
       \/ pc = "revise_code_with_claude" /\ state \in RevisePreStates
    /\ \E reply \in Replies :
          claude = [NoRequest EXCEPT !.reply = reply, !.before = state]
    /\ calls = NoCalls
    /\ attempt = NoAttempt
    /\ route = "none"
    /\ git_trace = NoTrace
    /\ worktree = Cloned
    /\ dev_input = NoDevOutcome
    /\ git_input = BaseGitEnv
    /\ repo = NoCommit
    /\ pkg = NoPackages
    /\ par = NoInstances

GenerateWithReply ==
    /\ pc = "generate_code_with_claude"
    /\ state' = generate_code_with_claude(state, claude.reply)
    /\ claude' = [claude EXCEPT !.node = "generate_code_with_claude",
                                !.request = IF ApiCalled(claude.reply)
                                            THEN "generation prompt" ELSE None]
    /\ pc' = Edge(pc)
    /\ UNCHANGED <<calls, attempt, route, dev_input, git_input, repo, pkg, par, git_trace, worktree>>

ReviseWithReply ==
    /\ pc = "revise_code_with_claude"
    /\ state' = revise_code_with_claude(state, claude.reply)
    /\ claude' = [claude EXCEPT !.node = "revise_code_with_claude",
                                !.request = IF ApiCalled(claude.reply)
                                            THEN revision_prompt(state) ELSE None]
    /\ pc' = Edge(pc)
    /\ UNCHANGED <<calls, attempt, route, dev_input, git_input, repo, pkg, par, git_trace, worktree>>

ClaudeNext == GenerateWithReply \/ ReviseWithReply

ClaudeSpec == ClaudeInit /\ [][ClaudeNext]_vars

----------------------------------------------------------------------------
(* Two published runs side by side: the local save of write_code_to_file and
   the branch of git_operations, under every interleaving with the clock *)

ParInit ==
    /\ pc = "parallel"
    /\ \E dl \in [Instances -> BOOLEAN] :
          par = [NoInstances EXCEPT !.inst = [i \in Instances |-> StartInstance(dl[i])]]
    /\ state = InitialState(DefaultMaxRevisionAttempts)
    /\ calls = NoCalls
    /\ attempt = NoAttempt
    /\ route = "none"
    /\ git_trace = NoTrace
    /\ worktree = Cloned
    /\ dev_input = NoDevOutcome
    /\ git_input = BaseGitEnv
    /\ repo = NoCommit
    /\ pkg = NoPackages
    /\ claude = NoRequest

Tick ==
    /\ pc = "parallel"
    /\ par.clock < MaxClock
    /\ par' = [par EXCEPT !.clock = @ + 1]
    /\ UNCHANGED <<pc, state, calls, attempt, route, dev_input, git_input, repo,
                   pkg, claude, git_trace, worktree>>

\* lines 1066-1089: open(local_filename, 'w') creates or truncates the file
SaveLocally(i) ==
    /\ pc = "parallel"
    /\ par.inst[i].at = "write_code_to_file"
    /\ par' = IF par.inst[i].download
              THEN [par EXCEPT !.inst[i].at = "git_operations",
                               !.inst[i].local_file_path = local_filename(par.clock),
                               !.files = @ \cup {[name |-> local_filename(par.clock),
                                                  by |-> i]}]
              ELSE [par EXCEPT !.inst[i].at = "git_operations"]
    /\ UNCHANGED <<pc, state, calls, attempt, route, dev_input, git_input, repo,
                   pkg, claude, git_trace, worktree>>

\* lines 1253-1263 and 1600-1616: the branch is named, checked out and pushed
PushBranch(i) ==
    /\ pc = "parallel"
    /\ par.inst[i].at = "git_operations"
    /\ par' = [par EXCEPT !.inst[i].at = "cleanup_sandbox",
                          !.inst[i].git_branch = branch_name(par.clock),
                          !.branches = @ \cup {[name |-> branch_name(par.clock),
                                                by |-> i]}]
    /\ UNCHANGED <<pc, state, calls, attempt, route, dev_input, git_input, repo,
                   pkg, claude, git_trace, worktree>>

ParNext ==
    \/ Tick
    \/ \E i \in Instances : SaveLocally(i)
    \/ \E i \in Instances : PushBranch(i)

ParSpec == ParInit /\ [][ParNext]_vars

----------------------------------------------------------------------------
(* Properties *)

GiveUp == "write_code_to_file_local_only"

Proceed == "write_code_to_file"

Revise == "revise_code_with_claude"

\* C1: revision_attempts starts at 0, never decreases from one state of a run
\* to the next, and is never above max_revision_attempts, whatever the
\* validations and revisions (failed revision calls included) answer.
C1_RevisionAttemptsBounded ==
    /\ state.revision_attempts = 0
    /\ [](state.revision_attempts \in 0..state.max_revision_attempts)
    /\ [][state'.revision_attempts >= state.revision_attempts]_vars

\* the budget of the default input is used up, one revision call having failed
C1_Witness ==
    /\ state.max_revision_attempts = DefaultMaxRevisionAttempts
    /\ state.revision_attempts = state.max_revision_attempts
    /\ pc = GiveUp
    /\ \E i \in 1..Len(state.error_log) :
          state.error_log[i] = "Failed to revise code with Claude"

\* C2: whichever way a run ends, cleanup_sandbox has run exactly once by then
\* (and never more than once).
C2_TeardownExactlyOnce ==
    /\ calls.cleanup_sandbox <= 1
    /\ (Ended \/ Raised => calls.cleanup_sandbox = 1)

\* C3: after a validation the router sends the run to write_code_to_file
\* exactly when execution_successful holds, otherwise to
\* revise_code_with_claude exactly when revision_attempts <
\* max_revision_attempts, and to write_code_to_file_local_only exactly when
\* revision_attempts >= max_revision_attempts.  (The three nodes are entered
\* from the router only, and the three conditions exclude one another.)
C3_RouterDecision ==
    /\ pc \in {Proceed, Revise, GiveUp} => route = pc
    /\ pc = Proceed => state.execution_successful
    /\ pc = Revise =>
          /\ ~state.execution_successful
          /\ state.revision_attempts < state.max_revision_attempts
    /\ pc = GiveUp =>
          /\ ~state.execution_successful
          /\ state.revision_attempts >= state.max_revision_attempts

\* the router revises for the last time: one attempt is left
C3_Witness ==
    /\ pc = Revise
    /\ state.revision_attempts = state.max_revision_attempts - 1
    /\ state.revision_attempts >= 1

\* C4: every run in which a node that is due runs eventually reaches END, and
\* it calls run_code at most max_revision_attempts + 1 times.
C4_Terminates ==
    /\ <>Ended
    /\ [](calls.run_code <= state.max_revision_attempts + 1)

ProvisioningFailed ==
    /\ Len(state.error_log) > 0
    /\ state.error_log[1] = "Failed to create sandbox"

\* C5: after a failed provisioning the run issues no clone command, makes no
\* generation call, and runs neither the validator nor a revision.
C5_ProvisioningFailureShortCircuits ==
    ProvisioningFailed =>
        /\ calls.clone_cmd = 0
        /\ calls.generate_api = 0
        /\ calls.run_code = 0
        /\ calls.revise = 0

\* C6: no node raises to the orchestrator: every node returns a state.
C6_NoStepRaises == ~Raised

\* C7: git_operations runs at most once in a run and only on the Proceed
\* path; on the GiveUp path it never runs, git_pushed stays false and no
\* commit or push command is issued.
C7_PublisherOnlyOnProceed ==
    /\ calls.git_operations <= 1
    /\ (pc = "git_operations" \/ calls.git_operations > 0) => route = Proceed
    /\ route = GiveUp =>
          /\ pc # "git_operations"
          /\ calls.git_operations = 0
          /\ calls.commit_cmd = 0
          /\ calls.push_cmd = 0
          /\ ~state.git_pushed

\* a run that gave up after revising has ended, the artifact saved locally
C7_Witness ==
    /\ Ended
    /\ route = GiveUp
    /\ state.revision_attempts > 0
    /\ state.code_written
    /\ calls.git_operations = 0

C9_SuccessfulValidation ==
    /\ state.execution_successful =>
          \/ /\ attempt.phase1 = "ok" /\ attempt.config = "ok" /\ attempt.dev = "ok"
             /\ state.langgraph_dev_successful
             /\ state.langgraph_config_setup
          \/ /\ attempt.phase1 = "ok" /\ attempt.config = "failed"
             /\ attempt.dev = "none"
             /\ ~state.langgraph_config_setup
    /\ attempt.dev \in {"failed", "exception"} => ~state.execution_successful

\* the degraded success: a cloned repository, the configuration could not be
\* written, the router proceeds
C9_Witness ==
    /\ pc = Proceed
    /\ state.repo_path
    /\ state.execution_successful
    /\ attempt.config = "failed"

HasPositiveMarker == \E m \in success_indicators : Contains(dev_input.output, m)

HasNegativeMarker == \E m \in error_indicators : Contains(dev_input.output, m)

\* C10: test_langgraph_dev reports success exactly when the dev-server output
\* holds at least one positive marker and no negative marker; any other
\* output (no marker at all, or markers of both kinds) is a failure recorded
\* with last_error_type = "langgraph_dev".
C10_DevServerClassification ==
    pc = "tested" =>
        /\ state.langgraph_dev_tested
        /\ dev_input.kind = "output" =>
              (state.langgraph_dev_successful <=> (HasPositiveMarker /\ ~HasNegativeMarker))
        /\ ~state.langgraph_dev_successful => state.last_error_type = "langgraph_dev"

\* an output with markers of both kinds was classified a failure
C10_Witness ==
    /\ pc = "tested"
    /\ dev_input.kind = "output"
    /\ HasPositiveMarker /\ HasNegativeMarker
    /\ ~state.langgraph_dev_successful
    /\ state.last_error_type = "langgraph_dev"

\* C11: git_pushed is true only when git_operations created a commit in this
\* run; when the publisher ran and its commit failed or was skipped,
\* git_pushed is false.
C11_PushedOnlyAfterCommit ==
    /\ state.git_pushed => (repo.committed /\ calls.commit_cmd >= 1)
    /\ (calls.git_operations = 1 /\ ~repo.committed) => ~state.git_pushed

\* a run published the amended temporary commit
C11_Witness ==
    /\ Ended
    /\ state.git_pushed
    /\ repo.committed
    /\ calls.commit_cmd = 2

\* C12: the publisher never commits while an owned file still holds a
\* merge-conflict marker: every commit it creates is free of markers, and a
\* publish whose final tree kept a marker ended without a commit and with
\* git_pushed = false.
C12_NoCommitWithMarkers ==
    /\ repo.committed => repo.marked = {}
    /\ (pc = "published" /\ AnyConflict(FinalTree(state, git_input).tree)) =>
          (~repo.committed /\ ~state.git_pushed)

\* C13: after one conflict scan followed by a resolution in which no write
\* failed, a second scan of the owned files reports no conflicted file.
C13_ResolutionIdempotent ==
    (pc = "published" /\ git_input.sync = "scan" /\ git_input.fault1 = "none") =>
        \A f \in OwnedSet :
            ~detect_merge_conflict_markers(SyncTree(state, git_input))[f]

PushFailed ==
    /\ pc = "published"
    /\ repo.committed
    /\ git_input.token
    /\ git_input.remote = "ok"
    /\ git_input.push = "raises"

C16_ErrorLogAppendOnly ==
    [][/\ Len(state.error_log) <= Len(state'.error_log)
       /\ SubSeq(state'.error_log, 1, Len(state.error_log)) = state.error_log]_vars

\* a run that logged a failed clone, a failed revision, a failed write and a
\* failed teardown, in that order
C16_Witness ==
    /\ Ended
    /\ Len(state.error_log) >= 4
    /\ state.error_log[1] = "Failed to clone repository"
    /\ \E i \in 2..(Len(state.error_log) - 2) :
          state.error_log[i] = "Failed to revise code with Claude"
    /\ state.error_log[Len(state.error_log) - 1] = "Failed to write code"
    /\ state.error_log[Len(state.error_log)] = "Cleanup failed"

\* every validation attempt of the run passed Phase 1 and failed in the dev
\* server for a missing graph export, and no attempt is left
AllAttemptsMissedExport ==
    /\ calls.failed_on = "missing_export"
    /\ ~state.execution_successful
    /\ state.revision_attempts >= state.max_revision_attempts
    /\ pc \notin {"run_code", "raised"}

\* C17: a run whose every allowed validation attempt passes Phase 1 and fails
\* Phase 2 with a missing-export marker ends in GiveUp without the publisher,
\* and its error_log holds (at least) one entry per failed validation attempt.
C17_OneLogEntryPerFailedAttempt ==
    AllAttemptsMissedExport =>
        /\ route = GiveUp
        /\ calls.git_operations = 0
        /\ Len(state.error_log) >= calls.run_code

\* C18: in a run with max_revision_attempts = 3 whose first two validation
\* attempts fail in Phase 1 and whose third attempt passes, revision_attempts
\* is 2 from the third validation to the end, the router proceeds, and the
\* run reaches the publisher and never the local-only write.
C18_ThirdArtifactPublishes ==
    (/\ state.max_revision_attempts = 3
     /\ calls.run_code = 3
     /\ calls.failed_on = "phase1"
     /\ state.execution_successful) =>
        /\ state.revision_attempts = 2
        /\ route = Proceed
        /\ pc \in {Proceed, "git_operations", "cleanup_sandbox", "END"}
        /\ Ended => calls.git_operations = 1

\* such a run has ended, published
C18_Witness ==
    /\ Ended
    /\ state.max_revision_attempts = 3
    /\ calls.run_code = 3
    /\ calls.failed_on = "phase1"
    /\ state.execution_successful
    /\ state.revision_attempts = 2
    /\ state.git_pushed

\* the first artifact passed both phases of its validation
FirstArtifactValidated ==
    /\ calls.run_code = 1
    /\ attempt = Ran("ok", "ok", "ok")
    /\ pc \notin {"run_code", "raised"}

\* the publisher logged a failure
PublisherFailed ==
    \E i \in 1..Len(state.error_log) : state.error_log[i] = "Git operations failed"

C20_ThreeOutcomes ==
    Ended =>
        /\ \/ state.success /\ state.git_pushed
           \/ state.success /\ ~state.git_pushed
           \/ ~state.success /\ ~state.git_pushed
        /\ state.success => state.execution_successful

\* C21: extract_required_packages is deterministic and order-independent: its
\* output is a sorted list without duplicates, a second run over the same source
\* gives the same list, and neither permuting the lines of the source
\* (every permutation of a text of up to MaxLines lines, every exchange of two
\* lines of any text) nor repeating one of them changes the output.
C21_ExtractOrderIndependent ==
    pc # "extract_required_packages" =>
        LET out == pkg.packages
            code == pkg.code
        IN  /\ \A i, j \in DOMAIN out : i < j => Rank(out[i]) < Rank(out[j])
            /\ extract_required_packages(code) = out
            /\ Len(code) <= MaxLines =>
                  \A p \in Permutations(DOMAIN code) :
                     extract_required_packages([i \in DOMAIN code |-> code[p[i]]]) = out
            /\ \A i, j \in DOMAIN code :
                  extract_required_packages([code EXCEPT ![i] = code[j], ![j] = code[i]]) = out
            /\ \A i \in DOMAIN code :
                  extract_required_packages(Append(code, code[i])) = out

\* a source whose lines name two packages against their sorted order, one twice
C21_Witness ==
    /\ pc = "executed"
    /\ pkg.code = << <<"import", "requests">>,
                     <<"from", "langchain_core", ".", "runnables", "import", "RunnableConfig">>,
                     <<"import", "requests">> >>
    /\ pkg.packages = <<"langchain-core", "requests">>

\* the root modules an import line names: the module after "from", every
\* module of the list after "import"
ImportedRoots(line) ==
    IF Len(line) < 2 \/ ~IsName(line[2]) THEN {}
    ELSE IF line[1] = "from" THEN {line[2]}
    ELSE IF line[1] = "import"
         THEN {line[i] : i \in {k \in 2..Len(line) :
                                   line[k - 1] \in {"import", ","} /\ IsName(line[k])}}
         ELSE {}

\* C22: extract_required_packages returns exactly the root module names of the
\* import lines of the source, the built-in modules removed and the names of the
\* alias table replaced by their package names; the other lines are skipped.
C22_ExactRootModules ==
    pc # "extract_required_packages" =>
        LET roots == UNION {ImportedRoots(pkg.code[i]) : i \in DOMAIN pkg.code}
        IN  {pkg.packages[i] : i \in DOMAIN pkg.packages}
              = { IF r \in DOMAIN package_mappings THEN package_mappings[r] ELSE r
                    : r \in roots \ builtin_modules }

\* C29: install_packages_in_sandbox runs the batch install first and, whenever
\* the batch install fails, attempts every package individually; it returns true
\* exactly when there is nothing to install, the batch succeeded or an individual
\* install succeeded; and the artifact is executed whatever the install returned.
C29_InstallPolicy ==
    (pc \in {"sandbox.run_code", "executed"} /\ pkg.packages # <<>>) =>
        LET valid == valid_packages(pkg.packages)
            individually == {pkg.commands[k] : k \in 2..Len(pkg.commands)}
        IN  /\ valid # <<>> => (pkg.commands # <<>> /\ pkg.commands[1] = valid)
            /\ (valid # <<>> /\ pkg.batch # "ok") =>
                  \A i \in DOMAIN valid : <<valid[i]>> \in individually
            /\ pkg.install_success
                  <=> \/ valid = <<>>
                      \/ pkg.batch = "ok"
                      \/ \E i \in DOMAIN valid :
                            <<valid[i]>> \in individually /\ pkg.single[valid[i]] = "ok"
            /\ pc = "executed" => pkg.executed

\* C23: when the revision call itself fails, revision_attempts grows by exactly
\* one, exactly one entry is appended to error_log, generated_code is left as it
\* was, and control returns to the validator.
C23_FailedRevisionCounts ==
    (claude.node = "revise_code_with_claude" /\ ExtractCode(claude.reply) = "raise") =>
        /\ state.revision_attempts = claude.before.revision_attempts + 1
        /\ Len(state.error_log) = Len(claude.before.error_log) + 1
        /\ SubSeq(state.error_log, 1, Len(claude.before.error_log))
              = claude.before.error_log
        /\ state.generated_code = claude.before.generated_code
        /\ pc = "run_code"

\* the service answers the second revision of an artifact with an error
C23_Witness ==
    /\ claude.node = "revise_code_with_claude"
    /\ claude.reply.kind = "error"
    /\ claude.before.revision_attempts = 1
    /\ claude.before.generated_code \in Artifacts
    /\ state.revision_attempts = 2
    /\ pc = "run_code"

\* the fields of the state the revision request may depend on
ErrorRecord(s) ==
    <<s.generated_code, s.last_error_type, s.last_error_name,
      s.last_error_value, s.last_error_details>>

\* C24: the revision request depends only on the current artifact and the
\* latest error record (generated_code and last_error_type/name/value/details),
\* not on error_log or on earlier errors, and it uses the LangGraph template
\* exactly when last_error_type is "langgraph_dev", the execution template
\* otherwise.
C24_RequestDependsOnLatestError ==
    (claude.node = "revise_code_with_claude" /\ ApiCalled(claude.reply)) =>
        /\ claude.request.template
              = (IF claude.before.last_error_type = "langgraph_dev"
                 THEN "langgraph_dev" ELSE "execution")
        /\ claude.request.code = claude.before.generated_code
        /\ \A s \in RevisePreStates :
              ErrorRecord(s) = ErrorRecord(claude.before)
                 => revision_prompt(s) = claude.request

\* a request sent for a dev-server failure after an earlier failed revision
C24_Witness ==
    /\ claude.node = "revise_code_with_claude"
    /\ ApiCalled(claude.reply)
    /\ claude.before.last_error_type = "langgraph_dev"
    /\ claude.before.error_log # <<>>
    /\ claude.before.revision_attempts = 1
    /\ claude.request.template = "langgraph_dev"

\* C25: generate and revise fail (no new artifact stored, one failure appended
\* to error_log) whenever the call to the service errors, returns nothing or
\* leaves no text once the fence is stripped; a reply without a fence is used
\* verbatim.
C25_GenerationFailed ==
    claude.node # "none" =>
        LET r == claude.reply
            b == claude.before
            nothing == \/ r.kind # "content"
                       \/ r.body = ""
                       \/ r.fenced /\ Strip(r.body) = ""
        IN  /\ nothing =>
                 /\ Len(state.error_log) = Len(b.error_log) + 1
                 /\ claude.node = "generate_code_with_claude" =>
                       state.generated_code = None /\ ~state.code_generated
                 /\ claude.node = "revise_code_with_claude" =>
                       state.generated_code = b.generated_code
            /\ (~nothing /\ ~r.fenced /\ b.generated_code # None) =>
                 state.generated_code = r.body

\* C26: teardown never throws: it always returns a state, in which sandbox is
\* None, and a failure of kill is logged in error_log; and sandbox is non-null in
\* every state between a successful provisioning and the teardown.
C26_TeardownNeverThrows ==
    /\ [](Ended => ~state.sandbox)
    /\ []((pc \in Nodes \ {"create_sandbox"} /\ ~ProvisioningFailed) => state.sandbox)
    /\ [][pc = "cleanup_sandbox" =>
             /\ pc' = "END"
             /\ ~state'.sandbox
             /\ \/ state'.error_log = state.error_log
                \/ /\ state.sandbox
                   /\ calls'.kill = calls.kill + 1
                   /\ state'.error_log = Append(state.error_log, "Cleanup failed")
                   /\ ~state'.success]_vars

\* a run with a sandbox, a validated and written artifact, whose kill failed
C26_Witness ==
    /\ Ended
    /\ ~ProvisioningFailed
    /\ calls.kill = 1
    /\ state.code_written
    /\ state.error_log # <<>>
    /\ state.error_log[Len(state.error_log)] = "Cleanup failed"
    /\ ~state.sandbox

\* the publisher's first three steps: the identity configuration, the checkout
\* or creation of the branch, the proactive sync with the remote
FirstStepsFailed(g) == ~g.config \/ ~g.checkout \/ g.sync = "raises"

\* C27: if the identity configuration, the checkout or creation of the branch,
\* or the proactive remote sync fails, the publisher aborts without a commit or
\* a push, appends the failure to error_log with git_pushed false, and the run
\* is still reported with success true, the validation having passed (by a
\* teardown whose kill returns).
C27_PublisherAbortsOnEarlyFailure ==
    (pc = "published" /\ FirstStepsFailed(git_input)) =>
        /\ ~repo.committed
        /\ calls.push_cmd = 0
        /\ ~state.git_pushed
        /\ state.error_log # <<>>
        /\ state.error_log[Len(state.error_log)] = "Git operations failed"
        /\ cleanup_sandbox(state, TRUE).success

\* C28: a validation whose configuration set-up failed counts as a success for
\* the revision loop (the router proceeds to the publisher and revision_attempts
\* is not incremented) but as a failure for publishing: the run never has
\* git_pushed true.
C28_ConfigFailureNotPublished ==
    attempt.config = "failed" =>
        /\ route = "write_code_to_file"
        /\ state.revision_attempts = calls.revise
        /\ ~state.git_pushed

\* C30: parallel workflow instances share no state: the locally saved artifact
\* file and the generated branch name of one instance are never written,
\* overwritten or reused by another instance.
C30_InstancesShareNothing ==
    /\ \A f, g \in par.files : f.name = g.name => f.by = g.by
    /\ \A b, c \in par.branches : b.name = c.name => b.by = c.by

\* C31: if a run is cancelled while a step is in flight after the sandbox was
\* provisioned, the teardown (kill) is still attempted before the run ends.
C31_CancelledRunTearsDown ==
    (Cancelled /\ state.sandbox) => calls.kill >= 1

\* the clone step failed in a provisioned sandbox: repo_path is empty and the
\* failure is in error_log
CloneFailed ==
    /\ ~ProvisioningFailed
    /\ ~state.repo_path
    /\ \E i \in DOMAIN state.error_log : state.error_log[i] = "Failed to clone repository"

\* C32: a clone failure is fatal to the generation step: after clone_repository
\* failed, the code-generation call is not made in that run.
C32_CloneFailureStopsGeneration ==
    CloneFailed => calls.generate_api = 0

\* the place of a command in the publisher's sequence: identity configuration,
\* checkout, remote sync, post-sync scan, staging, final scan, commit, push;
\* 0 for the commands the sequence does not name
StepRank(step) ==
    CASE step = "config" -> 1
      [] step = "checkout" -> 2
      [] step = "sync" -> 3
      [] step = "post_sync_scan" -> 4
      [] step = "stage" -> 5
      [] step = "final_scan" -> 6
      [] step \in {"commit", "merge_commit", "amend"} -> 7
      [] step \in {"push", "force_push"} -> 8
      [] OTHER -> 0

C34_TemporaryCommitReplaced ==
    (/\ pc = "published"
     /\ made_temp_commit(git_input)
     /\ \E i \in DOMAIN git_trace.steps : git_trace.steps[i] = "push")
        => git_trace.log = <<RealMessage>>

\* the negative markers of the four named sub-categories, in their order
CompilationMarkers == {"compilation failed", "graph compilation failed"}
ExportMarkers == {"missing graph", "graph 'graph' not found"}
SchemaMarkers == {"invalid state", "state schema error"}
DependencyMarkers == {"module not found"}

\* the dev command returned an output and that output was classified a failure
DevFailedOnOutput ==
    /\ pc = "tested"
    /\ ~DevRaises(state, dev_input)
    /\ ~state.langgraph_dev_successful

\* C35: when the dev-server test fails on the output of the dev command,
\* last_error_name is the sub-category of the negative marker in that output:
\* compilation failure, then missing export, then schema error, then missing
\* dependency, the first of these that has a marker in the output, and the
\* generic startup failure when none of the four has one.
C35_SubCategoryByPrecedence ==
    DevFailedOnOutput =>
        state.last_error_name =
            IF dev_input.output \cap CompilationMarkers # {} THEN "Graph compilation failed"
            ELSE IF dev_input.output \cap ExportMarkers # {} THEN "Graph export missing"
            ELSE IF dev_input.output \cap SchemaMarkers # {} THEN "State schema error"
            ELSE IF dev_input.output \cap DependencyMarkers # {} THEN "Missing dependencies"
            ELSE "LangGraph dev startup failed"

\* an output with a missing-dependency marker and a compilation marker was
\* recorded as a compilation failure
C35_Witness ==
    /\ DevFailedOnOutput
    /\ dev_input.output = {"module not found", "compilation failed"}
    /\ state.last_error_name = "Graph compilation failed"

\* a validation attempt has returned; `attempt` records what the most recent one ran
Validated == calls.run_code >= 1 /\ pc # "raised"

\* C36: after every validation attempt the phase flags describe that attempt:
\* langgraph_dev_tested is true exactly when the most recent attempt ran the
\* dev-server test, langgraph_dev_successful exactly when that test passed in
\* the most recent attempt, and langgraph_config_setup exactly when the most
\* recent attempt set the configuration up.
C36_PhaseFlagsDescribeAttempt ==
    Validated =>
        /\ state.langgraph_dev_tested <=> (attempt.dev # "none")
        /\ state.langgraph_dev_successful <=> (attempt.dev = "ok")
        /\ state.langgraph_config_setup <=> (attempt.config = "ok")

\* lines 1329-1374: the scan after the sync found conflict markers and the
\* automatic resolution of them returned False
SyncResolveFailed(s, g) ==
    LET pulled == WorkTree(s, g.conflicted)
    IN  /\ g.sync = "scan"
        /\ AnyConflict(pulled)
        /\ ~resolve_merge_conflicts_automatically(
                pulled, file_content_map(s, pulled, g.template), g.fault1).ok

\* the commands that stage, commit or push
PublishingSteps == {"stage", "restage", "merge_commit", "amend", "commit", "push", "force_push"}

\* C37: when the automatic conflict resolution made right after the remote sync
\* fails, the publisher stops there: no staging, commit or push command runs
\* afterwards and git_pushed is false.
C37_SyncResolveFailureAborts ==
    (pc = "published" /\ SyncResolveFailed(state, git_input)) =>
        /\ \A i \in DOMAIN git_trace.steps : git_trace.steps[i] \notin PublishingSteps
        /\ ~state.git_pushed

\* C38: when a run's validation ended in Proceed and the publisher is about to
\* run, the src/agent/graph.py that this run wrote into the working copy holds
\* the current generated_code, the artifact that passed the last validation,
\* and not an earlier revision's content.
C38_WorkingCopyHoldsArtifact ==
    (pc = "git_operations" /\ route = Proceed /\ worktree # Cloned) =>
        worktree = state.generated_code

\* C39: git_pushed is true in the final state only when this run executed a
\* push command (normal or forced) to the remote branch.
C39_PushedMeansPushCommandRan ==
    (Ended /\ state.git_pushed) => calls.push_cmd >= 1

\* lines 302-311: the initial generation failed in a run whose sandbox exists
GenerationFailedWithSandbox ==
    /\ ~ProvisioningFailed
    /\ ~state.code_generated
    /\ \E i \in DOMAIN state.error_log :
          state.error_log[i] = "Failed to generate code with Claude"

\* the number of failed revisions the log records
FailedRevisions ==
    Cardinality({i \in DOMAIN state.error_log :
                    state.error_log[i] = "Failed to revise code with Claude"})

\* C40: when the initial generation fails in a run whose sandbox exists,
\* generated_code stays None through every revision attempt, the publisher never
\* runs, commits or pushes, and the run ends with success = false and
\* code_written = false after exactly max_revision_attempts revisions, every
\* one of them failed.
C40_FailedGenerationNeverRecovers ==
    GenerationFailedWithSandbox =>
        /\ state.generated_code = None
        /\ calls.git_operations = 0 /\ calls.commit_cmd = 0 /\ calls.push_cmd = 0
        /\ ~state.git_pushed
        /\ FailedRevisions = calls.revise
        /\ calls.revise <= state.max_revision_attempts
        /\ Ended =>
              /\ ~state.success /\ ~state.code_written
              /\ calls.revise = state.max_revision_attempts
              /\ state.revision_attempts = state.max_revision_attempts

\* a run with a budget of three revisions whose generation failed, ended after
\* three failed revisions, the service having been asked each time
C40_Witness ==
    /\ GenerationFailedWithSandbox
    /\ Ended
    /\ state.max_revision_attempts = 3
    /\ calls.revise = 3 /\ FailedRevisions = 3
    /\ state.generated_code = None
    /\ ~state.success /\ ~state.code_written

====
